---- MODULE Spec2Model ----
(***************************************************************************)
(* The workflow execution engine of backend/services/workflow_engine.py,   *)
(* driven through backend/routes/workflows.py, and the executions store of *)
(* backend/routes/executions.py.                                           *)
(*                                                                         *)
(* The engine runs on one asyncio event loop: a coroutine runs without     *)
(* interruption up to its next await.  The background task of an execution *)
(* has one await, the call of a node executor (workflow_engine.py:225); a   *)
(* cancel request can run before the task's first step, while the task is   *)
(* suspended in an executor, and after the task has ended.                 *)
(*                                                                         *)
(* Python's None is the empty set and a present value v is {v}.  A dict is *)
(* a function from its keys; a node id is a number, ordered as the id      *)
(* strings are.  A value of a dict is a string naming where it comes from. *)
(***************************************************************************)
EXTENDS Integers, Sequences, FiniteSets, TLC

\* Bounds of the model: the number of edges of a definition, of any shape and
\* of a well-formed one.
MaxEdges == 2
MaxDagEdges == 4
\* The number of records created in the executions store, and the last
\* reading of the clock at which a request to the store is made.
MaxStored == 1
MaxClock == 3

None == {}
Some(v) == {v}
EmptyDict == << >>

\* models.py ExecutionStatus
PENDING == "pending"
RUNNING == "running"
SUCCESS == "success"
FAILED == "failed"
CANCELLED == "cancelled"
TerminalStatuses == {SUCCESS, FAILED, CANCELLED}

WorkflowIds == {"w1"}

\* The types WorkflowEngine.__init__ registers an executor for.
RegisteredTypes == <<"trigger", "connector", "agent", "action", "condition">>
\* The sample workflow (routes/workflows.py:246-251) has four nodes, of the
\* types "schedule" (which has no executor), "connector", "agent" and "action";
\* the chain the engine is written for starts with a "trigger" node.
ChainTypes == <<"trigger", "connector", "agent", "action">>
UnregisteredType == "schedule"
\* The node ids of the model: one for each node of the sample workflow.
NodeIds == 1..Len(ChainTypes)

Range(s) == {s[i] : i \in DOMAIN s}

\* dict.update: the keys of d2 overwrite those of d1.
DictUpdate(d1, d2) ==
    [k \in (DOMAIN d1) \cup (DOMAIN d2) |-> IF k \in DOMAIN d2 THEN d2[k] ELSE d1[k]]

RECURSIVE SeqsUpTo(_, _)
\* All sequences over S of length at most n.
SeqsUpTo(S, n) ==
    IF n = 0 THEN {<< >>}
    ELSE LET shorter == SeqsUpTo(S, n - 1)
         IN  shorter \cup {Append(s, x) : s \in {t \in shorter : Len(t) = n - 1}, x \in S}

----------------------------------------------------------------------------
\* Workflow definitions (models.py WorkflowNode, WorkflowEdge, WorkflowDefinition).

Node(i, t) == [id |-> i, type |-> t]
Edge(f, t) == [from_node |-> f, to_node |-> t, condition |-> None]

\* The node lists of the model: the first n ids in ascending order, each with
\* its type in the chain, the first node of the sample's unregistered type
\* instead in some; and the four nodes of the chain in descending order.
TypeOf(i, sample) == IF i = 1 /\ sample THEN UnregisteredType ELSE ChainTypes[i]

NodeList(n, up, sample) ==
    [k \in 1..n |-> LET i == IF up THEN k ELSE n + 1 - k IN Node(i, TypeOf(i, sample))]

NodeLists ==
    {NodeList(n, TRUE, sample) : n \in 0..Len(ChainTypes), sample \in BOOLEAN}
        \cup {NodeList(Len(ChainTypes), FALSE, FALSE)}

\* Every edge list of at most MaxEdges edges between ids, declared or not:
\* the definition is stored as it is given (routes/workflows.py:38-50).
EdgeLists == SeqsUpTo({Edge(f, t) : f \in NodeIds, t \in NodeIds}, MaxEdges)

Definitions == {[nodes |-> ns, edges |-> es] : ns \in NodeLists, es \in EdgeLists}

\* The well-formed definitions of the model: the four nodes of the chain, in
\* order, every edge from a node to one later in the chain, so that no edge
\* list has a cycle.
ForwardEdges == {Edge(pair[1], pair[2]) : pair \in {q \in NodeIds \X NodeIds : q[1] < q[2]}}

DagEdgeLists == SeqsUpTo(ForwardEdges, MaxDagEdges)

DagDefinitions ==
    {[nodes |-> NodeList(Len(ChainTypes), TRUE, FALSE), edges |-> es] : es \in DagEdgeLists}

\* The linear chains over the first n nodes, with the first node of the chain's
\* type or of the sample's.
ChainEdges(n) == [k \in 1..(n - 1) |-> Edge(k, k + 1)]

ChainDefinitions ==
    {[nodes |-> NodeList(n, TRUE, sample), edges |-> ChainEdges(n)] :
        n \in 1..Len(ChainTypes), sample \in BOOLEAN}

\* The top-level inputs of a run: a dict with a "result", and one that has a
\* "data" as well, which is a number.
Inputs ==
    { [k \in {"result"} |-> "input:list"],
      [k \in {"data", "result"} |-> IF k = "data" THEN "input:int" ELSE "input:list"] }

\* WorkflowUpdate.dict(): a definition as a plain dict, which has keys and no
\* attributes.
AsDict(definition) == [dict |-> definition]
IsDict(definition) == "dict" \in DOMAIN definition

\* The record the executions store starts with (routes/executions.py:262-274).
SampleExecutionId == 0
SampleExecution ==
    [id |-> SampleExecutionId, workflow_id |-> "sample-workflow-1", status |-> SUCCESS,
     input |-> Some([k \in {"trigger_type"} |-> "schedule"]),
     output |-> Some([k \in {"processed_invoices", "email_sent"} |-> "sample"]),
     error |-> None, started_at |-> Some(-1), completed_at |-> Some(0),
     executed_by |-> Some("admin-user-id")]

----------------------------------------------------------------------------
VARIABLES
    workflows_db,        \* routes/workflows.py workflows_db
    running_executions,  \* WorkflowEngine.running_executions
    task,                \* the locals of each _execute_workflow_async task
    clock,               \* datetime.utcnow()
    history,             \* what each execution has done so far (see NewHistory)
    response,            \* the answer to the last request
    executions_db        \* routes/executions.py executions_db

vars == <<workflows_db, running_executions, task, clock, history, response, executions_db>>

ExecIds == DOMAIN running_executions

\* uuid.uuid4(): an id no execution has.
FreshId == Cardinality(ExecIds) + 1

\* True while some task is between two awaits: nothing else runs then.
LoopBusy == \E e \in ExecIds : task[e].pc = "loop"

\* The state of the workflows store and of the engine after start-up, with the
\* workflows of `definitions` stored.
InitEngine(definitions) ==
    /\ workflows_db \in [WorkflowIds -> {[definition |-> d, is_active |-> a,
                                          updated_at |-> Some(0)] :
                                            d \in definitions, a \in BOOLEAN}]
    /\ running_executions = << >>
    /\ task = << >>
    /\ clock = 1
    /\ history = << >>
    /\ response = [op |-> "none", code |-> "none", execution_id |-> None]

\* The state after start-up, with the workflows of `definitions` stored.
InitWith(definitions) ==
    /\ InitEngine(definitions)
    /\ executions_db = (SampleExecutionId :> SampleExecution)

Init == InitWith(Definitions)
InitDag == InitWith(DagDefinitions)
InitChain == InitWith(ChainDefinitions)

----------------------------------------------------------------------------
\* The node executors (workflow_engine.py:16-127), for a node whose config is
\* the empty dict.  An executor call ends in an output dict or in an exception.

Returned(d) == [raised |-> FALSE, output |-> d, message |-> ""]
Raised(m) == [raised |-> TRUE, output |-> EmptyDict, message |-> m]

OutputOf(node, keys) == [k \in keys |-> "node:" \o ToString(node.id)]

TriggerExecutor(node, input_data) ==
    Returned(OutputOf(node, {"trigger_type", "triggered_at", "user_input"}))

ConnectorExecutor(node, input_data) ==
    Returned(OutputOf(node, {"connector_id", "action", "result", "executed_at"}))

\* len(input_data.get("data", [])) raises TypeError on a value without a length.
AgentExecutor(node, input_data) ==
    IF "data" \in DOMAIN input_data /\ input_data["data"] = "input:int"
    THEN Raised("object of type 'int' has no len()")
    ELSE Returned(OutputOf(node, {"agent_id", "processed_data", "analysis", "executed_at"}))

ActionExecutor(node, input_data) ==
    Returned(OutputOf(node, {"action_type", "recipient", "subject", "sent", "sent_at"}))

\* result = True, whatever the condition is.
ConditionExecutor(node, input_data) ==
    Returned(DictUpdate(OutputOf(node, {"condition", "result", "evaluated_at"}),
                        [k \in {"result"} |-> "True"]))

\* A changed HasExecutor: the check of the executor found is left out.
HasExecutorUnchecked(type) == TRUE

\* WorkflowEngine.__init__: self.executors
HasExecutor(type) == type \in Range(RegisteredTypes)

Execute(node, input_data) ==
    CASE node.type = "trigger" -> TriggerExecutor(node, input_data)
      [] node.type = "connector" -> ConnectorExecutor(node, input_data)
      [] node.type = "agent" -> AgentExecutor(node, input_data)
      [] node.type = "action" -> ActionExecutor(node, input_data)
      [] node.type = "condition" -> ConditionExecutor(node, input_data)
      \* self.executors.get(node.type) is None for any other type
      [] OTHER -> Raised("'NoneType' object has no attribute 'execute'")

----------------------------------------------------------------------------
\* The graph as _execute_workflow_async builds it (workflow_engine.py:181-194).

\* {node.id: node for node in nodes}: the last node of an id wins.
NodesById(nodes) ==
    [i \in {nodes[k].id : k \in DOMAIN nodes} |->
        nodes[CHOOSE k \in DOMAIN nodes :
                /\ nodes[k].id = i
                /\ \A j \in DOMAIN nodes : nodes[j].id = i => j <= k]]

EdgesByFrom(edges) ==
    [f \in {edges[k].from_node : k \in DOMAIN edges} |->
        SelectSeq(edges, LAMBDA ed : ed.from_node = f)]

IncomingEdges(edges) == {edges[k].to_node : k \in DOMAIN edges}

NodeIdsOf(nodes) == [k \in DOMAIN nodes |-> nodes[k].id]

EntryNodes(definition) ==
    SelectSeq(NodeIdsOf(definition.nodes),
              LAMBDA i : i \notin IncomingEdges(definition.edges))

\* [edge.from_node for edge in edges if edge.to_node == current_node_id]
Dependencies(edges, current_node_id) ==
    LET into == SelectSeq(edges, LAMBDA ed : ed.to_node = current_node_id)
    IN  [k \in DOMAIN into |-> into[k].from_node]

\* A changed AlreadyCompleted: the check of the completed set is left out.
AlreadyCompletedUnchecked(current_node_id, completed_nodes) == FALSE

\* if current_node_id in completed_nodes: continue
AlreadyCompleted(current_node_id, completed_nodes) == current_node_id \in completed_nodes

\* A changed DependenciesSatisfied: any() in the place of all().
DependenciesSatisfiedByAny(dependencies, completed_nodes) ==
    \/ dependencies = << >>
    \/ \E k \in DOMAIN dependencies : dependencies[k] \in completed_nodes

\* all(dep in completed_nodes for dep in dependencies)
DependenciesSatisfied(dependencies, completed_nodes) ==
    \A k \in DOMAIN dependencies : dependencies[k] \in completed_nodes

RECURSIVE MergeOutputsReversed(_, _, _)
\* A changed MergeOutputs: the outputs are merged from the last dependency to
\* the first.
MergeOutputsReversed(node_input, dependencies, node_outputs) ==
    IF dependencies = << >> THEN node_input
    ELSE LET dep == dependencies[Len(dependencies)]
             merged == IF dep \in DOMAIN node_outputs
                       THEN DictUpdate(node_input, node_outputs[dep])
                       ELSE node_input
         IN  MergeOutputsReversed(merged, SubSeq(dependencies, 1, Len(dependencies) - 1),
                                  node_outputs)

RECURSIVE MergeOutputs(_, _, _)
\* node_input.update(node_outputs[dep]) for each dep, in the order of the list.
MergeOutputs(node_input, dependencies, node_outputs) ==
    IF dependencies = << >> THEN node_input
    ELSE LET dep == Head(dependencies)
             merged == IF dep \in DOMAIN node_outputs
                       THEN DictUpdate(node_input, node_outputs[dep])
                       ELSE node_input
         IN  MergeOutputs(merged, Tail(dependencies), node_outputs)

NodeInput(input, dependencies, node_outputs) ==
    MergeOutputs(input, dependencies, node_outputs)

\* A changed NextNodes: only the target of the first outgoing edge is queued.
NextNodesFirstOnly(edges_by_from, current_node_id) ==
    IF current_node_id \in DOMAIN edges_by_from
    THEN <<edges_by_from[current_node_id][1].to_node>>
    ELSE << >>

\* The to_node of each edge of edges_by_from[current_node_id], in order.
NextNodes(edges_by_from, current_node_id) ==
    IF current_node_id \in DOMAIN edges_by_from
    THEN [k \in DOMAIN edges_by_from[current_node_id] |->
              edges_by_from[current_node_id][k].to_node]
    ELSE << >>

----------------------------------------------------------------------------
\* Operations.

Reply(op, code, id) == [op |-> op, code |-> code, execution_id |-> id]

\* The history of an execution: the executor calls, in order, each with the
\* input passed; the nodes that had been started when a cancel succeeded; the
\* exception the task caught, with the number of executor calls made by then;
\* the definition the workflow had when the execution was submitted.
NewHistory == [invoked |-> << >>, cancel_seen |-> None, raised |-> None, submitted |-> None]

InvokedNodes(e) == {history[e].invoked[k].node : k \in DOMAIN history[e].invoked}

NewTask ==
    [pc |-> "created", nodes_by_id |-> << >>, edges_by_from |-> << >>,
     execution_queue |-> << >>, completed_nodes |-> {}, node_outputs |-> << >>,
     current_node_id |-> None, node_input |-> EmptyDict]

\* A changed EngineExecuteWorkflow: the record is created with the default
\* status of models.py Execution.
EngineExecuteWorkflowPending(workflow_id, input_data) ==
    LET execution_id == FreshId
        execution == [id |-> execution_id, workflow_id |-> workflow_id,
                      status |-> PENDING, input |-> input_data, output |-> None,
                      error |-> None, started_at |-> Some(clock),
                      completed_at |-> None, executed_by |-> None]
        state == [execution |-> execution, workflow |-> workflow_id,
                  current_node |-> None, node_outputs |-> EmptyDict,
                  completed_nodes |-> {}]
    IN  /\ running_executions' = (execution_id :> state) @@ running_executions
        /\ task' = (execution_id :> NewTask) @@ task
        /\ history' = (execution_id :>
                           [NewHistory EXCEPT !.submitted =
                               Some(workflows_db[workflow_id].definition)]) @@ history
        /\ clock' = clock + 1
        /\ response' = Reply("execute", "200", Some(execution_id))

\* WorkflowEngine.execute_workflow: the record is created RUNNING, stored, and
\* the background task is created; no step of the task runs before the return.
EngineExecuteWorkflow(workflow_id, input_data) ==
    LET execution_id == FreshId
        execution == [id |-> execution_id, workflow_id |-> workflow_id,
                      status |-> RUNNING, input |-> input_data, output |-> None,
                      error |-> None, started_at |-> Some(clock),
                      completed_at |-> None, executed_by |-> None]
        state == [execution |-> execution, workflow |-> workflow_id,
                  current_node |-> None, node_outputs |-> EmptyDict,
                  completed_nodes |-> {}]
    IN  /\ running_executions' = (execution_id :> state) @@ running_executions
        /\ task' = (execution_id :> NewTask) @@ task
        /\ history' = (execution_id :>
                           [NewHistory EXCEPT !.submitted =
                               Some(workflows_db[workflow_id].definition)]) @@ history
        /\ clock' = clock + 1
        /\ response' = Reply("execute", "200", Some(execution_id))

\* routes/workflows.py execute_workflow: each request builds its own engine;
\* the model follows the engine of one request.
ExecuteWorkflow(workflow_id, input_data) ==
    /\ ~LoopBusy
    /\ ExecIds = {}
    /\ IF workflow_id \notin DOMAIN workflows_db
       THEN /\ response' = Reply("execute", "404", None)
            /\ UNCHANGED <<workflows_db, running_executions, task, clock, history>>
       ELSE IF ~workflows_db[workflow_id].is_active
       THEN /\ response' = Reply("execute", "400", None)
            /\ UNCHANGED <<workflows_db, running_executions, task, clock, history>>
       ELSE /\ EngineExecuteWorkflow(workflow_id, input_data)
            /\ UNCHANGED workflows_db
    /\ UNCHANGED executions_db

\* A changed TaskFails: the error message is not stored.
TaskFailsWithoutError(e, message, state) ==
    /\ running_executions' =
          [state EXCEPT ![e].execution.status = FAILED,
                        ![e].execution.completed_at = Some(clock)]
    /\ clock' = clock + 1
    /\ history' = [history EXCEPT ![e].raised =
                      Some([message |-> message, calls |-> Len(history[e].invoked)])]

\* except Exception as e (workflow_engine.py:244-248).
TaskFails(e, message, state) ==
    /\ running_executions' =
          [state EXCEPT ![e].execution.status = FAILED,
                        ![e].execution.error = Some(message),
                        ![e].execution.completed_at = Some(clock)]
    /\ clock' = clock + 1
    /\ history' = [history EXCEPT ![e].raised =
                      Some([message |-> message, calls |-> Len(history[e].invoked)])]

\* A changed TaskSucceeds: the output is built before the loop has filled
\* node_outputs.
TaskSucceedsWithoutOutputs(e) ==
    /\ running_executions' =
          [running_executions EXCEPT
              ![e].execution.status = SUCCESS,
              ![e].execution.output =
                  Some([node_outputs |-> EmptyDict,
                        completed_nodes |-> task[e].completed_nodes,
                        execution_summary |-> "Workflow completed successfully"]),
              ![e].execution.completed_at = Some(clock)]
    /\ clock' = clock + 1
    /\ UNCHANGED history

\* workflow_engine.py:236-242.
TaskSucceeds(e) ==
    /\ running_executions' =
          [running_executions EXCEPT
              ![e].execution.status = SUCCESS,
              ![e].execution.output =
                  Some([node_outputs |-> task[e].node_outputs,
                        completed_nodes |-> task[e].completed_nodes,
                        execution_summary |-> "Workflow completed successfully"]),
              ![e].execution.completed_at = Some(clock)]
    /\ clock' = clock + 1
    /\ UNCHANGED history

\* _execute_workflow_async up to the while loop (workflow_engine.py:176-196).
TaskStart(e) ==
    /\ ~LoopBusy
    /\ e \in ExecIds
    /\ task[e].pc = "created"
    /\ LET definition == workflows_db[running_executions[e].workflow].definition
       IN  IF IsDict(definition)
           THEN \* workflow.definition.nodes raises AttributeError
                /\ TaskFails(e, "'dict' object has no attribute 'nodes'", running_executions)
                /\ task' = [task EXCEPT ![e].pc = "done"]
           ELSE /\ task' = [task EXCEPT ![e] =
                      [@ EXCEPT !.pc = "loop",
                                !.nodes_by_id = NodesById(definition.nodes),
                                !.edges_by_from = EdgesByFrom(definition.edges),
                                !.execution_queue = EntryNodes(definition)]]
                /\ UNCHANGED <<running_executions, clock, history>>
    /\ UNCHANGED <<workflows_db, response, executions_db>>

\* One pass of the while loop, up to `continue`, to the await of the executor,
\* or out of the loop (workflow_engine.py:198-225, 236-248).
LoopIteration(e) ==
    /\ e \in ExecIds
    /\ task[e].pc = "loop"
    /\ LET t == task[e]
           execution == running_executions[e].execution
           definition == workflows_db[running_executions[e].workflow].definition
           edges == definition.edges
       IN  IF t.execution_queue = << >>
           THEN /\ TaskSucceeds(e)
                /\ task' = [task EXCEPT ![e].pc = "done"]
           ELSE LET current_node_id == Head(t.execution_queue)
                    rest == Tail(t.execution_queue)
                    dependencies == Dependencies(edges, current_node_id)
                IN  IF AlreadyCompleted(current_node_id, t.completed_nodes)
                    THEN /\ task' = [task EXCEPT ![e].execution_queue = rest]
                         /\ UNCHANGED <<running_executions, clock, history>>
                    ELSE IF IsDict(definition)
                    THEN \* workflow.definition.edges raises AttributeError
                         /\ TaskFails(e, "'dict' object has no attribute 'edges'",
                                      running_executions)
                         /\ task' = [task EXCEPT ![e].pc = "done",
                                                 ![e].execution_queue = rest]
                    ELSE IF ~DependenciesSatisfied(dependencies, t.completed_nodes)
                    THEN /\ task' = [task EXCEPT ![e].execution_queue =
                                                    Append(rest, current_node_id)]
                         /\ UNCHANGED <<running_executions, clock, history>>
                    ELSE IF current_node_id \notin DOMAIN t.nodes_by_id
                    THEN \* nodes_by_id[current_node_id] raises KeyError
                         /\ TaskFails(e, "'" \o ToString(current_node_id) \o "'",
                                      running_executions)
                         /\ task' = [task EXCEPT ![e].pc = "done",
                                                 ![e].execution_queue = rest]
                    ELSE LET node == t.nodes_by_id[current_node_id]
                             node_input == NodeInput(execution.input, dependencies,
                                                     t.node_outputs)
                             state == [running_executions EXCEPT
                                          ![e].current_node = Some(current_node_id)]
                             locals == [t EXCEPT !.execution_queue = rest,
                                                 !.current_node_id = Some(current_node_id),
                                                 !.node_input = node_input]
                         IN  IF ~HasExecutor(node.type)
                             THEN /\ TaskFails(e, "No executor found for node type: "
                                                    \o node.type, state)
                                  /\ task' = [task EXCEPT ![e] = [locals EXCEPT !.pc = "done"]]
                             ELSE /\ running_executions' = state
                                  /\ task' = [task EXCEPT ![e] = [locals EXCEPT !.pc = "awaiting"]]
                                  /\ history' = [history EXCEPT ![e].invoked =
                                        Append(@, [node |-> current_node_id,
                                                   input |-> node_input])]
                                  /\ UNCHANGED clock
    /\ UNCHANGED <<workflows_db, response, executions_db>>

\* A changed ExecutorDone: the output is recorded, the node is not added to
\* the completed set.
ExecutorDoneOutputOnly(e) ==
    /\ ~LoopBusy
    /\ e \in ExecIds
    /\ task[e].pc = "awaiting"
    /\ LET t == task[e]
           current_node_id == CHOOSE i \in t.current_node_id : TRUE
           result == Execute(t.nodes_by_id[current_node_id], t.node_input)
       IN  IF result.raised
           THEN /\ TaskFails(e, result.message, running_executions)
                /\ task' = [task EXCEPT ![e].pc = "done"]
           ELSE /\ task' = [task EXCEPT ![e] =
                      [t EXCEPT !.pc = "loop",
                                !.node_outputs = (current_node_id :> result.output) @@ @,
                                !.execution_queue =
                                    @ \o NextNodes(t.edges_by_from, current_node_id)]]
                /\ UNCHANGED <<running_executions, clock, history>>
    /\ UNCHANGED <<workflows_db, response, executions_db>>

\* The executor call ends (workflow_engine.py:225-233, 244-248).
ExecutorDone(e) ==
    /\ ~LoopBusy
    /\ e \in ExecIds
    /\ task[e].pc = "awaiting"
    /\ LET t == task[e]
           current_node_id == CHOOSE i \in t.current_node_id : TRUE
           result == Execute(t.nodes_by_id[current_node_id], t.node_input)
       IN  IF result.raised
           THEN /\ TaskFails(e, result.message, running_executions)
                /\ task' = [task EXCEPT ![e].pc = "done"]
           ELSE /\ task' = [task EXCEPT ![e] =
                      [t EXCEPT !.pc = "loop",
                                !.node_outputs = (current_node_id :> result.output) @@ @,
                                !.completed_nodes = @ \cup {current_node_id},
                                !.execution_queue =
                                    @ \o NextNodes(t.edges_by_from, current_node_id)]]
                /\ UNCHANGED <<running_executions, clock, history>>
    /\ UNCHANGED <<workflows_db, response, executions_db>>

\* A changed CancelExecution: every execution that has not ended is cancelled.
CancelEveryExecution(execution_id) ==
    /\ ~LoopBusy
    /\ IF execution_id \notin ExecIds
       THEN /\ response' = Reply("cancel", "False", None)
            /\ UNCHANGED <<running_executions, clock, history>>
       ELSE IF running_executions[execution_id].execution.status \in TerminalStatuses
       THEN /\ response' = Reply("cancel", "False", Some(execution_id))
            /\ UNCHANGED <<running_executions, clock, history>>
       ELSE /\ running_executions' =
                  [e \in ExecIds |->
                      IF running_executions[e].execution.status \in TerminalStatuses
                      THEN running_executions[e]
                      ELSE [running_executions[e] EXCEPT
                               !.execution.status = CANCELLED,
                               !.execution.completed_at = Some(clock),
                               !.execution.error = Some("Execution cancelled by user")]]
            /\ clock' = clock + 1
            /\ history' = [history EXCEPT ![execution_id].cancel_seen =
                              Some(InvokedNodes(execution_id))]
            /\ response' = Reply("cancel", "True", Some(execution_id))
    /\ UNCHANGED <<workflows_db, task, executions_db>>

\* WorkflowEngine.cancel_execution (workflow_engine.py:273-288).
CancelExecution(execution_id) ==
    /\ ~LoopBusy
    /\ IF execution_id \notin ExecIds
       THEN /\ response' = Reply("cancel", "False", None)
            /\ UNCHANGED <<running_executions, clock, history>>
       ELSE IF running_executions[execution_id].execution.status \in TerminalStatuses
       THEN /\ response' = Reply("cancel", "False", Some(execution_id))
            /\ UNCHANGED <<running_executions, clock, history>>
       ELSE /\ running_executions' =
                  [running_executions EXCEPT
                      ![execution_id].execution.status = CANCELLED,
                      ![execution_id].execution.completed_at = Some(clock),
                      ![execution_id].execution.error = Some("Execution cancelled by user")]
            /\ clock' = clock + 1
            /\ history' = [history EXCEPT ![execution_id].cancel_seen =
                              Some(InvokedNodes(execution_id))]
            /\ response' = Reply("cancel", "True", Some(execution_id))
    /\ UNCHANGED <<workflows_db, task, executions_db>>

Next ==
    \/ \E w \in WorkflowIds, input \in Inputs : ExecuteWorkflow(w, input)
    \/ \E e \in ExecIds : TaskStart(e)
    \/ \E e \in ExecIds : LoopIteration(e)
    \/ \E e \in ExecIds : ExecutorDone(e)
    \/ \E e \in ExecIds : CancelExecution(e)

Spec == Init /\ [][Next]_vars

\* The event loop runs every task that can run.
TaskStep == \E e \in ExecIds : TaskStart(e) \/ LoopIteration(e) \/ ExecutorDone(e)

FairSpec == Spec /\ WF_vars(TaskStep)

\* The runs of the well-formed definitions.
SpecDag == InitDag /\ [][Next]_vars

----------------------------------------------------------------------------
\* The executions store (routes/executions.py).

StoredIds == DOMAIN executions_db

\* uuid.uuid4(): an id no record has, and none the engine has drawn: the ids
\* of the store are 0, -1, ... and those of the engine 1, 2, ...
FreshStoredId == 0 - Cardinality(StoredIds)

\* The ids of the requests to the store: those of the records and one of no
\* record.
RequestedIds == (0 - (MaxStored + 1))..0

\* The parameters of the update_execution_status requests: the status, which
\* is any string, with an output or an error or neither.
StatusUpdate(status, output, error) == [status |-> status, output |-> output, error |-> error]

StatusUpdates ==
    { StatusUpdate(RUNNING, None, None),
      StatusUpdate(SUCCESS, Some([k \in {"result"} |-> "update"]), None),
      StatusUpdate(FAILED, None, Some("update error")),
      StatusUpdate(CANCELLED, None, None),
      StatusUpdate("paused", None, None) }

HttpReply(op, code, id) == [op |-> op, code |-> code, execution_id |-> id]

\* create_execution: the record is stored with status "pending".
CreateExecution(workflow_id, input_data) ==
    /\ ~LoopBusy
    /\ Cardinality(StoredIds) <= MaxStored
    /\ clock < MaxClock
    /\ LET execution_id == FreshStoredId
           execution == [id |-> execution_id, workflow_id |-> workflow_id,
                         status |-> PENDING, input |-> Some(input_data), output |-> None,
                         error |-> None, started_at |-> Some(clock),
                         completed_at |-> None, executed_by |-> Some("current-user")]
       IN  /\ executions_db' = (execution_id :> execution) @@ executions_db
           /\ response' = HttpReply("create", "201", Some(execution_id))
    /\ clock' = clock + 1
    /\ UNCHANGED <<workflows_db, running_executions, task, history>>

\* A changed UpdateExecutionStatus: an id of no record gets a record.
UpdateExecutionStatusOrCreate(execution_id, status, output, error) ==
    /\ ~LoopBusy
    /\ clock < MaxClock
    /\ executions_db' =
          (execution_id :>
              [id |-> execution_id, workflow_id |-> "", status |-> status, input |-> None,
               output |-> output, error |-> error, started_at |-> None,
               completed_at |-> None, executed_by |-> None]) @@ executions_db
    /\ response' = HttpReply("update_status", "200", Some(execution_id))
    /\ UNCHANGED <<workflows_db, running_executions, task, clock, history>>

\* update_execution_status: the status is written as given; output and error
\* are written when they are given and not empty.
UpdateExecutionStatus(execution_id, status, output, error) ==
    /\ ~LoopBusy
    /\ clock < MaxClock
    /\ IF execution_id \notin StoredIds
       THEN /\ response' = HttpReply("update_status", "404", None)
            /\ UNCHANGED <<executions_db, clock>>
       ELSE LET completed == status \in {"success", "failed", "cancelled"}
            IN  /\ executions_db' =
                      [executions_db EXCEPT
                          ![execution_id].status = status,
                          ![execution_id].output = IF output # None THEN output ELSE @,
                          ![execution_id].error = IF error # None THEN error ELSE @,
                          ![execution_id].completed_at =
                              IF completed THEN Some(clock) ELSE @]
                /\ clock' = IF completed THEN clock + 1 ELSE clock
                /\ response' = HttpReply("update_status", "200", Some(execution_id))
    /\ UNCHANGED <<workflows_db, running_executions, task, history>>

\* A changed CancelStoredExecution: the error is not written.
CancelStoredExecutionWithoutError(execution_id) ==
    /\ ~LoopBusy
    /\ clock < MaxClock
    /\ IF execution_id \notin StoredIds
       THEN /\ response' = HttpReply("cancel_stored", "404", None)
            /\ UNCHANGED <<executions_db, clock>>
       ELSE IF executions_db[execution_id].status \notin {"pending", "running"}
       THEN /\ response' = HttpReply("cancel_stored", "400", Some(execution_id))
            /\ UNCHANGED <<executions_db, clock>>
       ELSE /\ executions_db' =
                  [executions_db EXCEPT
                      ![execution_id].status = CANCELLED,
                      ![execution_id].completed_at = Some(clock)]
            /\ clock' = clock + 1
            /\ response' = HttpReply("cancel_stored", "200", Some(execution_id))
    /\ UNCHANGED <<workflows_db, running_executions, task, history>>

\* A changed CancelStoredExecution: a record that is not pending or running is
\* cancelled as well.
CancelStoredExecutionInAnyStatus(execution_id) ==
    /\ ~LoopBusy
    /\ clock < MaxClock
    /\ IF execution_id \notin StoredIds
       THEN /\ response' = HttpReply("cancel_stored", "404", None)
            /\ UNCHANGED <<executions_db, clock>>
       ELSE /\ executions_db' =
                  [executions_db EXCEPT
                      ![execution_id].status = CANCELLED,
                      ![execution_id].completed_at = Some(clock),
                      ![execution_id].error = Some("Execution cancelled by user")]
            /\ clock' = clock + 1
            /\ response' = HttpReply("cancel_stored", "200", Some(execution_id))
    /\ UNCHANGED <<workflows_db, running_executions, task, history>>

\* cancel_execution of routes/executions.py.
CancelStoredExecution(execution_id) ==
    /\ ~LoopBusy
    /\ clock < MaxClock
    /\ IF execution_id \notin StoredIds
       THEN /\ response' = HttpReply("cancel_stored", "404", None)
            /\ UNCHANGED <<executions_db, clock>>
       ELSE IF executions_db[execution_id].status \notin {"pending", "running"}
       THEN /\ response' = HttpReply("cancel_stored", "400", Some(execution_id))
            /\ UNCHANGED <<executions_db, clock>>
       ELSE /\ executions_db' =
                  [executions_db EXCEPT
                      ![execution_id].status = CANCELLED,
                      ![execution_id].completed_at = Some(clock),
                      ![execution_id].error = Some("Execution cancelled by user")]
            /\ clock' = clock + 1
            /\ response' = HttpReply("cancel_stored", "200", Some(execution_id))
    /\ UNCHANGED <<workflows_db, running_executions, task, history>>

NextStore ==
    \/ \E w \in WorkflowIds, input \in Inputs : CreateExecution(w, input)
    \/ \E id \in RequestedIds, u \in StatusUpdates :
            UpdateExecutionStatus(id, u.status, u.output, u.error)
    \/ \E id \in RequestedIds : CancelStoredExecution(id)

\* The engine of one execute request and the executions store, side by side.
SpecStore == InitChain /\ [][Next \/ NextStore]_vars

----------------------------------------------------------------------------
\* Properties.

Execution(e) == running_executions[e].execution
Ended(e) == task[e].pc = "done"
DefinitionOf(e) == workflows_db[running_executions[e].workflow].definition
DeclaredIds(definition) == {definition.nodes[k].id : k \in DOMAIN definition.nodes}
\* The ids with an edge into node n.
Predecessors(definition, n) ==
    {definition.edges[k].from_node :
        k \in {j \in DOMAIN definition.edges : definition.edges[j].to_node = n}}

EdgeEnds(definition) ==
    {definition.edges[k].from_node : k \in DOMAIN definition.edges}
        \cup {definition.edges[k].to_node : k \in DOMAIN definition.edges}

EndpointsDeclared(definition) == EdgeEnds(definition) \subseteq DeclaredIds(definition)

RECURSIVE ReachedIn(_, _, _)
\* The ids reached from the ids of `from` by one to `steps` edges.
ReachedIn(definition, from, steps) ==
    IF steps = 0 THEN {}
    ELSE LET next == {definition.edges[k].to_node :
                         k \in {j \in DOMAIN definition.edges :
                                    definition.edges[j].from_node \in from}}
         IN  next \cup ReachedIn(definition, next, steps - 1)

HasCycle(definition) ==
    \E n \in EdgeEnds(definition) :
        n \in ReachedIn(definition, {n}, Len(definition.edges))

NoEntryNode(definition) ==
    /\ definition.nodes # << >>
    /\ DeclaredIds(definition) \subseteq IncomingEdges(definition.edges)

\* The number of executor calls of execution e for node n.
Calls(e, n) == Cardinality({k \in DOMAIN history[e].invoked : history[e].invoked[k].node = n})

\* C1: once the status of an execution is SUCCESS, FAILED or CANCELLED, no
\* step of the background task and no cancel request changes it.
C1_TerminalStatusKept ==
    [][\A e \in ExecIds :
          Execution(e).status \in TerminalStatuses =>
              running_executions'[e].execution.status = Execution(e).status]_vars

\* C2: after a cancel that succeeded while some node of the definition had not
\* been started, no node that had not been started then is executed, and the
\* run ends CANCELLED.
C2_CancelStopsTheRun ==
    \A e \in ExecIds :
        /\ history[e].cancel_seen # None
        /\ DeclaredIds(DefinitionOf(e)) \ UNION history[e].cancel_seen # {}
        => /\ InvokedNodes(e) \subseteq UNION history[e].cancel_seen
           /\ Ended(e) => Execution(e).status = CANCELLED

\* C3: every execution that was started eventually has a terminal status.
C3_ReachesTerminalStatus ==
    \A e \in 1..1 :
        (e \in ExecIds) ~> (e \in ExecIds /\ Execution(e).status \in TerminalStatuses)

\* C4: when the background task catches an exception, the run has ended
\* FAILED with the exception's message as error and completed_at set, and no
\* executor has been called since the exception; the task never ends without a
\* terminal status.
C4_RaiseEndsFailed ==
    \A e \in ExecIds :
        /\ history[e].raised # None =>
              LET raised == CHOOSE r \in history[e].raised : TRUE
              IN  /\ Ended(e)
                  /\ Execution(e).status = FAILED
                  /\ Execution(e).error = Some(raised.message)
                  /\ Execution(e).completed_at # None
                  /\ Len(history[e].invoked) = raised.calls
        /\ Ended(e) => Execution(e).status \in TerminalStatuses

\* C4 happens: an executor has raised in a run that had called two executors.
C4_Witness ==
    \E e \in ExecIds :
        /\ history[e].raised = Some([message |-> "object of type 'int' has no len()",
                                     calls |-> 2])
        /\ Execution(e).status = FAILED

\* C5: every executor call was made after every node with an edge into the
\* called node had been called earlier, had finished and had its output
\* recorded.
C5_PredecessorsFirst ==
    \A e \in ExecIds :
        \A k \in DOMAIN history[e].invoked :
            \A p \in Predecessors(DefinitionOf(e), history[e].invoked[k].node) :
                /\ \E j \in 1..(k - 1) : history[e].invoked[j].node = p
                /\ p \in task[e].completed_nodes
                /\ p \in DOMAIN task[e].node_outputs

\* C5 happens: the third call of a run is of a node with two predecessors.
C5_Witness ==
    \E e \in ExecIds :
        /\ Len(history[e].invoked) = 3
        /\ Cardinality(Predecessors(DefinitionOf(e), history[e].invoked[3].node)) = 2

\* C6: a run of an acyclic definition whose edges join declared nodes that
\* has ended SUCCESS has called the executor of every node exactly once, and
\* its completed nodes are as many as the nodes.
C6_EveryNodeOnce ==
    \A e \in ExecIds :
        /\ Ended(e)
        /\ Execution(e).status = SUCCESS
        /\ EndpointsDeclared(DefinitionOf(e))
        /\ ~HasCycle(DefinitionOf(e))
        => /\ \A n \in DeclaredIds(DefinitionOf(e)) : Calls(e, n) = 1
           /\ InvokedNodes(e) \subseteq DeclaredIds(DefinitionOf(e))
           /\ \A out \in Execution(e).output :
                 Cardinality(out.completed_nodes) = Cardinality(DeclaredIds(DefinitionOf(e)))

\* C6 happens: a run of a diamond has ended SUCCESS after four executor calls.
C6_Witness ==
    \E e \in ExecIds :
        /\ Ended(e)
        /\ Execution(e).status = SUCCESS
        /\ DefinitionOf(e).edges = <<Edge(1, 2), Edge(1, 3), Edge(2, 4), Edge(3, 4)>>
        /\ Len(history[e].invoked) = 4

\* C7: no execution exists of a definition whose edges have a cycle.
C7_CycleRejected ==
    \A e \in ExecIds : ~HasCycle(DefinitionOf(e))

\* C8: no execution exists of a definition with an edge whose source or target
\* is not a declared node.
C8_UndeclaredEndpointRejected ==
    \A e \in ExecIds : EndpointsDeclared(DefinitionOf(e))

\* C9: no execution exists of a non-empty definition in which every node has
\* an incoming edge, and none has status SUCCESS.
C9_NoEntryNodeRejected ==
    /\ \A e \in ExecIds : ~NoEntryNode(DefinitionOf(e))
    /\ \A e \in ExecIds : NoEntryNode(DefinitionOf(e)) => Execution(e).status # SUCCESS

\* The places in the edge list of execution e of the edges into node n whose
\* source has an output with the key.
EdgesGiving(e, n, key) ==
    {j \in DOMAIN DefinitionOf(e).edges :
        /\ DefinitionOf(e).edges[j].to_node = n
        /\ DefinitionOf(e).edges[j].from_node \in DOMAIN task[e].node_outputs
        /\ key \in DOMAIN task[e].node_outputs[DefinitionOf(e).edges[j].from_node]}

Max(S) == CHOOSE x \in S : \A y \in S : y <= x

\* The keys of the outputs of the predecessors of node n in execution e.
PredecessorKeys(e, n) ==
    UNION {DOMAIN task[e].node_outputs[p] : p \in Predecessors(DefinitionOf(e), n)}

\* C10 as amended: the input of an executor call has the keys of the top-level
\* input and of the outputs of the node's predecessors; a key of a predecessor's
\* output holds the value of the predecessor whose edge into the node is the
\* last in the edge list among those with the key, and any other key holds the
\* top-level input's value.
C10_LastEdgeWins ==
    \A e \in ExecIds :
        \A k \in DOMAIN history[e].invoked :
            LET call == history[e].invoked[k]
                edges == DefinitionOf(e).edges
            IN  /\ DOMAIN call.input =
                      (DOMAIN Execution(e).input) \cup PredecessorKeys(e, call.node)
                /\ \A key \in DOMAIN call.input :
                      call.input[key] =
                          IF EdgesGiving(e, call.node, key) = {}
                          THEN Execution(e).input[key]
                          ELSE task[e].node_outputs
                                  [edges[Max(EdgesGiving(e, call.node, key))].from_node][key]

\* C10 happens: node 4 was called with predecessors 2 and 3, the edge from 2
\* given last; "executed_at" holds the value of 2 and "result", a key of the
\* top-level input, holds the value of 2 as well.
C10_Witness ==
    \E e \in ExecIds :
        \E k \in DOMAIN history[e].invoked :
            /\ history[e].invoked[k].node = 4
            /\ DefinitionOf(e).edges = <<Edge(3, 4), Edge(2, 4)>>
            /\ history[e].invoked[k].input["executed_at"] = "node:2"
            /\ history[e].invoked[k].input["result"] = "node:2"
            /\ "result" \in DOMAIN Execution(e).input

\* C10 as claimed: a node with two predecessors A < B is called with every key
\* of both outputs, a key of both holding B's value, and with the keys of the
\* top-level input overwritten by the outputs.
C10_LaterIdWins ==
    \A e \in ExecIds :
        \A k \in DOMAIN history[e].invoked :
            LET call == history[e].invoked[k]
                preds == Predecessors(DefinitionOf(e), call.node)
                outs == task[e].node_outputs
            IN  Cardinality(preds) = 2 =>
                    \A a \in preds, b \in preds :
                        a < b =>
                            /\ (DOMAIN outs[a]) \cup (DOMAIN outs[b]) \subseteq DOMAIN call.input
                            /\ \A key \in DOMAIN outs[a] : key \notin DOMAIN outs[b] =>
                                  call.input[key] = outs[a][key]
                            /\ \A key \in DOMAIN outs[b] : call.input[key] = outs[b][key]

----------------------------------------------------------------------------
\* The outcome of runs.

\* The node ids whose outputs the record of execution e shows: those of the
\* output once it is set, else those of the execution state.
ExposedNodeOutputs(e) ==
    IF Execution(e).output # None
    THEN UNION {DOMAIN out.node_outputs : out \in Execution(e).output}
    ELSE DOMAIN running_executions[e].node_outputs

\* C13: when a run has failed at a node, the record shows the outputs of
\* exactly the nodes that had completed before it, and no executor has been
\* called since.
C13_FailureKeepsOutputs ==
    \A e \in ExecIds :
        /\ history[e].raised # None
        /\ Execution(e).status = FAILED
        => /\ ExposedNodeOutputs(e) = task[e].completed_nodes
           /\ \A r \in history[e].raised : Len(history[e].invoked) = r.calls

\* C14: the output of a run with status SUCCESS has one entry of node_outputs
\* for each node that was executed and no other, its completed nodes are the
\* same nodes, and completed_at is set and not earlier than started_at.
C14_SuccessHasOutputs ==
    \A e \in ExecIds :
        Execution(e).status = SUCCESS =>
            /\ Execution(e).output # None
            /\ \A out \in Execution(e).output :
                  /\ DOMAIN out.node_outputs = InvokedNodes(e)
                  /\ out.completed_nodes = InvokedNodes(e)
            /\ Execution(e).completed_at # None
            /\ \A s \in Execution(e).started_at, c \in Execution(e).completed_at : c >= s

\* C14 happens: the chain of four nodes has ended SUCCESS with four entries.
C14_Witness ==
    \E e \in ExecIds :
        /\ Execution(e).status = SUCCESS
        /\ DefinitionOf(e).edges = <<Edge(1, 2), Edge(2, 3), Edge(3, 4)>>
        /\ \E out \in Execution(e).output : DOMAIN out.node_outputs = 1..4

\* C15: the step in which execute_workflow returns an id stores the record of
\* that id with status RUNNING, with the task created and no executor called;
\* every later change of a status is a step of the background task or a cancel
\* request.
C15_SubmissionReturnsRunning ==
    [][/\ \A e \in (DOMAIN running_executions') \ ExecIds :
             /\ response' = Reply("execute", "200", Some(e))
             /\ running_executions'[e].execution.status = RUNNING
             /\ history'[e].invoked = << >>
             /\ task'[e].pc = "created"
       /\ \A e \in ExecIds :
             running_executions'[e].execution.status # Execution(e).status =>
                 LoopIteration(e) \/ ExecutorDone(e) \/ CancelExecution(e)]_vars

\* C15 happens: an id has been returned and the task has not taken a step.
C15_Witness ==
    \E e \in ExecIds :
        /\ response = Reply("execute", "200", Some(e))
        /\ Execution(e).status = RUNNING
        /\ task[e].pc = "created"
        /\ history[e].invoked = << >>

UnknownNodeType(type) == "No executor found for node type: " \o type

\* The nodes of the definition whose type has no executor.
UnregisteredNodes(definition) ==
    {definition.nodes[k].id :
        k \in {j \in DOMAIN definition.nodes :
                  definition.nodes[j].type \notin Range(RegisteredTypes)}}

WellFormedGraph(definition) == EndpointsDeclared(definition) /\ ~HasCycle(definition)

\* C16 as claimed: in a run of an acyclic definition with a node of an
\* unregistered type, no executor is called for such a node, the status is
\* never SUCCESS, and the run ends FAILED with the unknown-node-type error.
C16_UnknownTypeError ==
    \A e \in ExecIds :
        /\ UnregisteredNodes(DefinitionOf(e)) # {}
        /\ WellFormedGraph(DefinitionOf(e))
        => /\ InvokedNodes(e) \cap UnregisteredNodes(DefinitionOf(e)) = {}
           /\ Execution(e).status # SUCCESS
           /\ Ended(e) =>
                 /\ Execution(e).status = FAILED
                 /\ Execution(e).error \in
                       {Some(UnknownNodeType(DefinitionOf(e).nodes[k].type)) :
                           k \in DOMAIN DefinitionOf(e).nodes}

\* The last executor call of execution e raised.
LastCallRaised(e) ==
    /\ history[e].invoked # << >>
    /\ LET call == history[e].invoked[Len(history[e].invoked)]
           result == Execute(task[e].nodes_by_id[call.node], call.input)
       IN  result.raised /\ Execution(e).error = Some(result.message)

\* C16 as amended: in such a run no executor is called for a node of an
\* unregistered type, the status is never SUCCESS, and the run ends FAILED,
\* with the unknown-node-type error unless the executor of a node reached
\* earlier has raised, and then with that executor's error.
C16_UnknownTypeFails ==
    \A e \in ExecIds :
        /\ UnregisteredNodes(DefinitionOf(e)) # {}
        /\ WellFormedGraph(DefinitionOf(e))
        => /\ InvokedNodes(e) \cap UnregisteredNodes(DefinitionOf(e)) = {}
           /\ Execution(e).status # SUCCESS
           /\ Ended(e) =>
                 /\ Execution(e).status = FAILED
                 /\ \/ Execution(e).error \in
                          {Some(UnknownNodeType(DefinitionOf(e).nodes[k].type)) :
                              k \in DOMAIN DefinitionOf(e).nodes}
                    \/ LastCallRaised(e)

\* C16 happens: a run has ended with the unknown-node-type error after the
\* executor of another node was called.
C16_Witness ==
    \E e \in ExecIds :
        /\ WellFormedGraph(DefinitionOf(e))
        /\ Ended(e)
        /\ Execution(e).status = FAILED
        /\ Execution(e).error = Some(UnknownNodeType(UnregisteredType))
        /\ history[e].invoked # << >>

\* C20: whenever a request can run, a node id is in the completed set of the
\* task exactly when the task has an output for it, the same holds of the
\* completed_nodes and node_outputs of the execution state, and of those of the
\* output of the record.
C20_OutputsAgreeWithCompleted ==
    \A e \in ExecIds :
        ~LoopBusy =>
            /\ DOMAIN task[e].node_outputs = task[e].completed_nodes
            /\ DOMAIN running_executions[e].node_outputs =
                  running_executions[e].completed_nodes
            /\ \A out \in Execution(e).output :
                  DOMAIN out.node_outputs = out.completed_nodes

\* C20 happens: the task is suspended in an executor call with two nodes
\* completed.
C20_Witness ==
    \E e \in ExecIds :
        /\ task[e].pc = "awaiting"
        /\ Cardinality(task[e].completed_nodes) = 2

----------------------------------------------------------------------------
\* Cancel requests.

CancelledByCaller == "cancelled by caller"
CancelledByUser == "Execution cancelled by user"

\* The step is a cancel request to the engine for execution e, whose status
\* is one of `statuses`.
EngineCancelOf(e, statuses) ==
    /\ Execution(e).status \in statuses
    /\ CancelExecution(e)

\* The step is a cancel request to the store for record id, whose status is
\* one of `statuses`.
StoreCancelOf(id, statuses) ==
    /\ executions_db[id].status \in statuses
    /\ CancelStoredExecution(id)

\* C11 as claimed: a cancel request for an execution that is PENDING or
\* RUNNING, to the engine or to the store, sets its status to CANCELLED and
\* its error to "cancelled by caller".
C11_CancelSetsCallerError ==
    [][/\ \A e \in ExecIds :
             EngineCancelOf(e, {PENDING, RUNNING}) =>
                 /\ running_executions'[e].execution.status = CANCELLED
                 /\ running_executions'[e].execution.error = Some(CancelledByCaller)
       /\ \A id \in StoredIds :
             StoreCancelOf(id, {PENDING, RUNNING}) =>
                 /\ executions_db'[id].status = CANCELLED
                 /\ executions_db'[id].error = Some(CancelledByCaller)]_vars

\* C11 as amended: such a cancel request sets the status to CANCELLED and the
\* error to "Execution cancelled by user", and is answered as a success.
C11_CancelSetsUserError ==
    [][/\ \A e \in ExecIds :
             EngineCancelOf(e, {PENDING, RUNNING}) =>
                 /\ running_executions'[e].execution.status = CANCELLED
                 /\ running_executions'[e].execution.error = Some(CancelledByUser)
                 /\ response' = Reply("cancel", "True", Some(e))
       /\ \A id \in StoredIds :
             StoreCancelOf(id, {PENDING, RUNNING}) =>
                 /\ executions_db'[id].status = CANCELLED
                 /\ executions_db'[id].error = Some(CancelledByUser)
                 /\ response' = HttpReply("cancel_stored", "200", Some(id))]_vars

\* C11 happens: a record of the store has been cancelled by a cancel request,
\* and an execution of the engine has been cancelled as well.
C11_Witness ==
    /\ \E id \in StoredIds :
          /\ executions_db[id].status = CANCELLED
          /\ executions_db[id].error = Some(CancelledByUser)
    /\ \E e \in ExecIds :
          /\ history[e].cancel_seen # None
          /\ Execution(e).status = CANCELLED
          /\ Execution(e).error = Some(CancelledByUser)

\* C12: a cancel request for an execution that is SUCCESS, FAILED or
\* CANCELLED is answered False by the engine and 400 by the store, and changes
\* no field of any record.
C12_CancelOfEndedRefused ==
    [][/\ \A e \in ExecIds :
             EngineCancelOf(e, TerminalStatuses) =>
                 /\ response' = Reply("cancel", "False", Some(e))
                 /\ running_executions' = running_executions
       /\ \A id \in StoredIds :
             StoreCancelOf(id, TerminalStatuses) =>
                 /\ response' = HttpReply("cancel_stored", "400", Some(id))
                 /\ executions_db' = executions_db]_vars

\* C12 happens: the engine has refused to cancel an execution that had ended
\* SUCCESS, and the store holds a record it cancelled and the sample record,
\* which is ended.
C12_Witness ==
    /\ \E e \in ExecIds :
          /\ response = Reply("cancel", "False", Some(e))
          /\ Execution(e).status = SUCCESS
    /\ \E id \in StoredIds \ {SampleExecutionId} : executions_db[id].status = CANCELLED
    /\ executions_db[SampleExecutionId].status = SUCCESS

----------------------------------------------------------------------------
\* Status queries (WorkflowEngine.get_execution_status).

StatusReply(id, body) == [op |-> "status", code |-> "200", execution_id |-> id, body |-> body]

GetExecutionStatus(execution_id) ==
    /\ ~LoopBusy
    /\ IF execution_id \notin ExecIds
       THEN response' = StatusReply(None, [error |-> Some("Execution not found")])
       ELSE LET execution_state == running_executions[execution_id]
                execution == execution_state.execution
            IN  response' =
                    StatusReply(Some(execution_id),
                                [status |-> execution.status,
                                 current_node |-> execution_state.current_node,
                                 completed_nodes |-> execution_state.completed_nodes,
                                 started_at |-> execution.started_at,
                                 completed_at |-> execution.completed_at,
                                 error |-> execution.error])
    /\ UNCHANGED <<workflows_db, running_executions, task, clock, history, executions_db>>

\* The ids of the status queries: those of the executions and one of none.
QueriedIds == ExecIds \cup {FreshId}

NextStatus == \E id \in QueriedIds : GetExecutionStatus(id)

\* The engine of one execute request, with status queries.
SpecStatus == InitChain /\ [][Next \/ NextStatus]_vars

\* C17: a status query for an execution lists among its completed nodes every
\* node whose executor call has ended in an output by then.
C17_CompletedNodesVisible ==
    [][\A e \in ExecIds :
          GetExecutionStatus(e) =>
              task[e].completed_nodes \subseteq response'.body.completed_nodes]_vars

----------------------------------------------------------------------------
\* Updates of a workflow (routes/workflows.py update_workflow).

\* The bodies of the update requests, as WorkflowUpdate.dict(exclude_unset=True)
\* gives them: a dict of the fields that were set, a definition as a dict.
UpdatedDefinitions ==
    {[nodes |-> NodeList(n, TRUE, FALSE), edges |-> ChainEdges(n)] : n \in {1, 3}}

UpdateData ==
    {[k \in {"is_active"} |-> a] : a \in BOOLEAN}
        \cup {[k \in {"definition"} |-> AsDict(d)] : d \in UpdatedDefinitions}

UpdateWorkflow(workflow_id, update_data) ==
    /\ ~LoopBusy
    /\ clock < MaxClock
    /\ IF workflow_id \notin DOMAIN workflows_db
       THEN /\ response' = HttpReply("update_workflow", "404", None)
            /\ UNCHANGED <<workflows_db, clock>>
       ELSE /\ workflows_db' =
                  [workflows_db EXCEPT ![workflow_id] =
                      [field \in DOMAIN @ |->
                          IF field \in DOMAIN update_data THEN update_data[field]
                          ELSE IF field = "updated_at" THEN Some(clock)
                          ELSE @[field]]]
            /\ clock' = clock + 1
            /\ response' = HttpReply("update_workflow", "200", None)
    /\ UNCHANGED <<running_executions, task, history, executions_db>>

NextUpdate == \E w \in WorkflowIds, update_data \in UpdateData : UpdateWorkflow(w, update_data)

\* The engine of one execute request, with updates of the workflow.
SpecUpdate == InitChain /\ [][Next \/ NextUpdate]_vars

AttributeErrors ==
    {"'dict' object has no attribute 'nodes'", "'dict' object has no attribute 'edges'"}

\* C18: an execution runs on the definition its workflow had when it was
\* submitted: the graph the task builds is that of this definition, every node
\* it executes is one of its nodes, executed after the nodes with an edge into
\* it, no exception comes from a definition stored later, and a run that ends
\* SUCCESS has executed all its nodes.
C18_DefinitionFrozenAtSubmission ==
    \A e \in ExecIds :
        \A d \in history[e].submitted :
            ~IsDict(d) =>
                /\ task[e].pc \in {"loop", "awaiting"} =>
                      /\ task[e].nodes_by_id = NodesById(d.nodes)
                      /\ task[e].edges_by_from = EdgesByFrom(d.edges)
                /\ InvokedNodes(e) \subseteq DeclaredIds(d)
                /\ \A k \in DOMAIN history[e].invoked :
                      Predecessors(d, history[e].invoked[k].node) \subseteq
                          {history[e].invoked[j].node : j \in 1..(k - 1)}
                /\ \A r \in history[e].raised : r.message \notin AttributeErrors
                /\ Execution(e).status = SUCCESS => InvokedNodes(e) = DeclaredIds(d)

----------------------------------------------------------------------------
\* Several executions on one engine (WorkflowEngine.execute_workflow called
\* more than once on the same object).

\* The ids of the two executions submitted to the engine.
TwoExecutions == {1, 2}

SubmitExecution(workflow_id, input_data) ==
    /\ ~LoopBusy
    /\ FreshId \in TwoExecutions
    /\ workflow_id \in DOMAIN workflows_db
    /\ EngineExecuteWorkflow(workflow_id, input_data)
    /\ UNCHANGED <<workflows_db, executions_db>>

NextEngine ==
    \/ \E w \in WorkflowIds, input \in Inputs : SubmitExecution(w, input)
    \/ \E e \in ExecIds : TaskStart(e)
    \/ \E e \in ExecIds : LoopIteration(e)
    \/ \E e \in ExecIds : ExecutorDone(e)
    \/ \E e \in ExecIds : CancelExecution(e)

SpecEngine == InitChain /\ [][NextEngine]_vars

\* The fields of execution e that C19 is about.
ExecutionFields(state, locals, e) ==
    [status |-> state[e].execution.status,
     error |-> state[e].execution.error,
     output |-> state[e].execution.output,
     node_outputs |-> state[e].node_outputs,
     completed_nodes |-> state[e].completed_nodes,
     task_node_outputs |-> locals[e].node_outputs,
     task_completed_nodes |-> locals[e].completed_nodes]

\* A step of the task of execution e, or a cancel request for it.
StepOf(e) == TaskStart(e) \/ LoopIteration(e) \/ ExecutorDone(e) \/ CancelExecution(e)

\* C19: a step of one execution leaves the status, the error, the output, the
\* node outputs and the completed nodes of every other execution of the engine
\* as they are.
C19_ExecutionsIndependent ==
    [][\A e \in ExecIds, other \in ExecIds :
          e # other /\ StepOf(e) =>
              ExecutionFields(running_executions', task', other) =
                  ExecutionFields(running_executions, task, other)]_vars

\* C19 happens: of two executions of the same workflow, one has failed after
\* completing a node and the other has been cancelled while suspended in an
\* executor call with a node completed.
C19_Witness ==
    \E e \in ExecIds, other \in ExecIds :
        /\ running_executions[e].workflow = running_executions[other].workflow
        /\ Execution(e).status = FAILED
        /\ task[e].completed_nodes # {}
        /\ Execution(other).status = CANCELLED
        /\ task[other].pc = "awaiting"
        /\ task[other].completed_nodes # {}

----------------------------------------------------------------------------
\* The fields of the engine's execution record.

\* C28: the status and the result fields of an execution record agree:
\* SUCCESS comes with no error and an output, FAILED and CANCELLED come with an
\* error, RUNNING comes with neither output nor error.
C28_StatusAgreesWithResult ==
    \A e \in ExecIds :
        /\ Execution(e).status = SUCCESS =>
              Execution(e).error = None /\ Execution(e).output # None
        /\ Execution(e).status \in {FAILED, CANCELLED} => Execution(e).error # None
        /\ Execution(e).status = RUNNING =>
              Execution(e).output = None /\ Execution(e).error = None

\* C29: completed_at of an execution record is set exactly when its status is
\* SUCCESS, FAILED or CANCELLED, and no step changes a completed_at that is
\* set.
C29_CompletedAtSetOnce ==
    [][\A e \in ExecIds :
          /\ Execution(e).completed_at # None <=> Execution(e).status \in TerminalStatuses
          /\ Execution(e).completed_at # None =>
                running_executions'[e].execution.completed_at = Execution(e).completed_at]_vars

----------------------------------------------------------------------------
\* The records of the executions store.

StoredResult(db, id) ==
    [status |-> db[id].status, output |-> db[id].output,
     error |-> db[id].error, completed_at |-> db[id].completed_at]

\* C22: once the status of a record of the store is success, failed or
\* cancelled, no update_execution_status and no cancel request changes its
\* status, output, error or completed_at.
C22_StoredResultKept ==
    [][\A id \in StoredIds :
          executions_db[id].status \in TerminalStatuses =>
              /\ id \in DOMAIN executions_db'
              /\ StoredResult(executions_db', id) = StoredResult(executions_db, id)]_vars

\* get_execution of routes/executions.py: the record of the id, or HTTP 404.
GetExecution(execution_id) ==
    /\ ~LoopBusy
    /\ IF execution_id \notin StoredIds
       THEN response' = HttpReply("get", "404", None)
       ELSE response' = [op |-> "get", code |-> "200", execution_id |-> Some(execution_id),
                         execution |-> executions_db[execution_id]]
    /\ UNCHANGED <<workflows_db, running_executions, task, clock, history, executions_db>>

\* The requests to the executions routes for the ids the execute endpoint has
\* returned and for the ids of the store.
NextLookup ==
    \/ \E id \in ExecIds \cup RequestedIds : GetExecution(id)
    \/ \E id \in ExecIds \cup RequestedIds : CancelStoredExecution(id)

\* The execute endpoint and the executions routes, side by side.
SpecLookup == InitChain /\ [][Next \/ NextLookup]_vars

\* C21: a get_execution request for an id that the execute endpoint returned
\* answers with the record of that id, and neither it nor a cancel request for
\* that id answers HTTP 404.
C21_ReturnedIdIsStored ==
    [][\A e \in ExecIds :
          /\ GetExecution(e) =>
                /\ response'.code = "200"
                /\ response'.execution_id = Some(e)
          /\ CancelStoredExecution(e) => response'.code # "404"]_vars

----------------------------------------------------------------------------
\* Reading the executions store (routes/executions.py).

\* datetime.min: earlier than every time.
DatetimeMin == -1000

\* The default of get_executions' limit.
DefaultLimit == 100

\* executions_db.values(): the records in the order they were stored, the
\* sample record first.
StoredValues == [k \in 1..Cardinality(StoredIds) |-> executions_db[1 - k]]

\* The sort key: x.started_at or datetime.min.
StartKey(x) == IF x.started_at = None THEN DatetimeMin ELSE CHOOSE t \in x.started_at : TRUE

\* A changed SortByStartedAt: the list is left in the order of the store.
SortByStartedAtSkipped(executions) == executions

RECURSIVE SortByStartedAt(_)
\* executions.sort(key=..., reverse=True): by start time from the latest to
\* the earliest, records of one start time in the order they had.
SortByStartedAt(executions) ==
    IF executions = << >> THEN << >>
    ELSE LET x == Head(executions)
             rest == SortByStartedAt(Tail(executions))
         IN  SelectSeq(rest, LAMBDA y : StartKey(y) > StartKey(x))
                 \o <<x>>
                 \o SelectSeq(rest, LAMBDA y : StartKey(y) <= StartKey(x))

\* executions[:limit]: the first limit elements, and for a negative limit all
\* but the last -limit.
SliceTo(executions, limit) ==
    LET n == Len(executions)
        stop == IF limit >= 0 THEN (IF limit < n THEN limit ELSE n)
                ELSE (IF n + limit > 0 THEN n + limit ELSE 0)
    IN  SubSeq(executions, 1, stop)

\* `if workflow_id:` holds for a string that is given and not empty.
Truthy(workflow_id) == workflow_id \notin {None, Some("")}

\* get_executions of routes/executions.py.
GetExecutions(workflow_id, limit) ==
    /\ ~LoopBusy
    /\ LET all == StoredValues
           executions == IF Truthy(workflow_id)
                         THEN SelectSeq(all, LAMBDA e : Some(e.workflow_id) = workflow_id)
                         ELSE all
       IN  response' = [op |-> "list", code |-> "200", execution_id |-> None,
                        executions |-> SliceTo(SortByStartedAt(executions), limit)]
    /\ UNCHANGED <<workflows_db, running_executions, task, clock, history, executions_db>>

\* The workflow_id parameters of the list requests: none, the empty string, and
\* the ids of workflows.
ListFilters == {None, Some("")} \cup {Some(w) : w \in WorkflowIds \cup {"sample-workflow-1"}}

\* The limit parameters of the list requests.
Limits == (-1..MaxStored) \cup {DefaultLimit}

\* The sample record is started at 10:00 of the day the server starts, which is
\* before or after the server's start.
SampleExecutionStartedAt(t) ==
    [SampleExecution EXCEPT !.started_at = Some(t), !.completed_at = Some(t + 1)]

SampleStarts == {-1, 2, MaxClock + 1}

InitRoutes ==
    /\ InitEngine({[nodes |-> NodeList(Len(ChainTypes), TRUE, TRUE),
                    edges |-> ChainEdges(Len(ChainTypes))]})
    /\ executions_db \in {(SampleExecutionId :> SampleExecutionStartedAt(t)) : t \in SampleStarts}

NextGet == \E id \in RequestedIds : GetExecution(id)

\* The requests to the executions routes that write the store, and the get
\* requests.
SpecRoutes == InitRoutes /\ [][NextStore \/ NextGet]_vars

\* The create, cancel, get and list requests to the executions routes, the
\* records being created for any of the list's workflow ids.
NextList ==
    \/ \E workflow_id \in UNION (ListFilters \ {Some("")}), input \in Inputs :
            CreateExecution(workflow_id, input)
    \/ \E id \in RequestedIds : CancelStoredExecution(id)
    \/ NextGet
    \/ \E workflow_id \in ListFilters, limit \in Limits : GetExecutions(workflow_id, limit)

SpecList == InitRoutes /\ [][NextList]_vars

\* The list is ordered by start time from the latest to the earliest.
LatestFirst(executions) ==
    \A j \in DOMAIN executions, k \in DOMAIN executions :
        j < k => StartKey(executions[j]) >= StartKey(executions[k])

\* C26 as claimed: a list request returns at most `limit` records, only
\* records of the given workflow id when one is given, ordered by started_at
\* from the most recent to the oldest, and leaves the store unchanged.
C26_ListingAsClaimed ==
    [][\A workflow_id \in ListFilters, limit \in Limits :
          GetExecutions(workflow_id, limit) =>
              LET executions == response'.executions
              IN  /\ Len(executions) <= limit
                  /\ workflow_id # None =>
                        \A k \in DOMAIN executions :
                            Some(executions[k].workflow_id) = workflow_id
                  /\ LatestFirst(executions)
                  /\ executions_db' = executions_db]_vars

\* C26: a list request returns records of the store, at most `limit` of them
\* when limit is zero or more, only records of the given workflow id when one
\* that is not empty is given, ordered by started_at from the most recent to
\* the oldest, and leaves the store unchanged.
C26_Listing ==
    [][\A workflow_id \in ListFilters, limit \in Limits :
          GetExecutions(workflow_id, limit) =>
              LET executions == response'.executions
              IN  /\ Range(executions) \subseteq Range(executions_db)
                  /\ limit >= 0 => Len(executions) <= limit
                  /\ Truthy(workflow_id) =>
                        \A k \in DOMAIN executions :
                            Some(executions[k].workflow_id) = workflow_id
                  /\ LatestFirst(executions)
                  /\ executions_db' = executions_db]_vars

\* C26 happens: the store holds the sample record and a later one, and a list
\* request has returned both, the later one first; or it has returned only
\* one of the two.
C26_Witness ==
    /\ response.op = "list"
    /\ Cardinality(StoredIds) = 2
    /\ StartKey(executions_db[SampleExecutionId]) < StartKey(executions_db[-1])
    /\ \/ /\ Len(response.executions) = 2
          /\ response.executions[1].id = -1
       \/ Len(response.executions) = 1

----------------------------------------------------------------------------
\* The settings of the workflow engine (config.py).

\* Settings.MAX_CONCURRENT_EXECUTIONS, read from the environment variable of
\* that name (10 when it is not set); configured as 1 here.
MAX_CONCURRENT_EXECUTIONS == 1

\* The executions of the engine whose status is RUNNING.
RunningExecutions == {e \in ExecIds : Execution(e).status = RUNNING}

\* C24: at no time are more than MAX_CONCURRENT_EXECUTIONS executions in
\* status RUNNING.
C24_RunningWithinMaximum == Cardinality(RunningExecutions) <= MAX_CONCURRENT_EXECUTIONS

\* Settings.EXECUTION_TIMEOUT_MINUTES, read from the environment variable of
\* that name (30 when it is not set); configured as 2 here, in the unit of
\* the clock.
EXECUTION_TIMEOUT_MINUTES == 2

\* The time since execution e was started.
Age(e) == clock - (CHOOSE t \in Execution(e).started_at : TRUE)

\* Time passes while a task is suspended in an executor call (the executors
\* await asyncio.sleep): no line of the program runs, and the clock goes on. It
\* is followed until a run that is in flight is past the timeout.
TimePasses ==
    /\ ~LoopBusy
    /\ \E e \in ExecIds :
          /\ task[e].pc = "awaiting"
          /\ Execution(e).status \notin TerminalStatuses
          /\ Age(e) <= EXECUTION_TIMEOUT_MINUTES
    /\ clock' = clock + 1
    /\ UNCHANGED <<workflows_db, running_executions, task, history, response, executions_db>>

\* The engine of one execute request, with time passing.
SpecTimed == InitChain /\ [][Next \/ TimePasses]_vars

\* C25: an execution that was started more than EXECUTION_TIMEOUT_MINUTES ago
\* has a terminal status, and if it ended after the timeout had expired, that
\* status is FAILED with error "timeout".
C25_TimeoutFailsTheRun ==
    \A e \in ExecIds :
        Age(e) > EXECUTION_TIMEOUT_MINUTES =>
            /\ Execution(e).status \in TerminalStatuses
            /\ \A t \in Execution(e).completed_at :
                  t - (CHOOSE s \in Execution(e).started_at : TRUE) > EXECUTION_TIMEOUT_MINUTES
                      => Execution(e).status = FAILED /\ Execution(e).error = Some("timeout")

----------------------------------------------------------------------------
\* Workflows with a condition node.

\* An edge that carries a condition (models.py WorkflowEdge.condition).
ConditionalEdge(f, t, condition) == [from_node |-> f, to_node |-> t, condition |-> condition]

\* The conditions of the edges: none, and an expression over the `result` of
\* the condition node's output.
EdgeConditions == {None, Some("result"), Some("not result")}

\* A trigger, a condition node behind it, and two nodes behind the condition
\* node, each on an edge of its own.
ConditionTypes == <<"trigger", "condition", "connector", "action">>

ConditionDefinitions ==
    {[nodes |-> [k \in 1..Len(ConditionTypes) |-> Node(k, ConditionTypes[k])],
      edges |-> <<Edge(1, 2), ConditionalEdge(2, 3, c3), ConditionalEdge(2, 4, c4)>>] :
        c3 \in EdgeConditions, c4 \in EdgeConditions}

InitCondition == InitWith(ConditionDefinitions)

SpecCondition == InitCondition /\ [][Next]_vars

\* The condition of an edge evaluates false against the output of the node
\* the edge leaves.
EvaluatesFalse(condition, output) ==
    \/ condition = Some("result") /\ output["result"] # "True"
    \/ condition = Some("not result") /\ output["result"] = "True"

\* The edges of execution e that leave a condition node that has completed,
\* carry a condition that evaluates false against its output, and are the only
\* edge into their target.
FalseEdges(e) ==
    LET definition == DefinitionOf(e)
    IN  {k \in DOMAIN definition.edges :
            LET edge == definition.edges[k]
            IN  /\ edge.from_node \in DOMAIN task[e].node_outputs
                /\ task[e].nodes_by_id[edge.from_node].type = "condition"
                /\ EvaluatesFalse(edge.condition, task[e].node_outputs[edge.from_node])
                /\ Predecessors(definition, edge.to_node) = {edge.from_node}}

\* C23: the target of an edge that leaves a condition node with a condition
\* that evaluates false against the node's output, and that has no other
\* incoming edge, is not executed and not recorded as completed, and the run
\* ends SUCCESS when no node has failed and no cancel was requested.
C23_FalseEdgeSkipsTarget ==
    \A e \in ExecIds :
        task[e].pc # "created" =>
            \A k \in FalseEdges(e) :
                LET target == DefinitionOf(e).edges[k].to_node
                IN  /\ target \notin InvokedNodes(e)
                    /\ target \notin task[e].completed_nodes
                    /\ Ended(e) /\ history[e].raised = None /\ history[e].cancel_seen = None
                          => Execution(e).status = SUCCESS

----------------------------------------------------------------------------
\* Runs of well-formed workflows whose executors return, with no cancel
\* request.

\* The largest number of edges of these workflows.
MaxRunEdges == 3

\* The orders the four nodes of the chain are declared in.
NodeOrders == {<<1, 2, 3, 4>>, <<4, 3, 2, 1>>, <<3, 1, 4, 2>>}

\* The four nodes in each of the orders, with every list of at most
\* MaxRunEdges forward edges, in any order.
RunDefinitions ==
    {[nodes |-> [k \in 1..Len(order) |-> Node(order[k], ChainTypes[order[k]])],
      edges |-> es] :
        order \in NodeOrders, es \in SeqsUpTo(ForwardEdges, MaxRunEdges)}

\* The inputs on which no executor raises.
ReturningInputs == {input \in Inputs : \A node \in Range(NodeList(Len(ChainTypes), TRUE, FALSE)) :
                                           ~Execute(node, input).raised}

InitRun == InitWith(RunDefinitions)

NextRun ==
    \/ \E w \in WorkflowIds, input \in ReturningInputs : ExecuteWorkflow(w, input)
    \/ \E e \in ExecIds : TaskStart(e)
    \/ \E e \in ExecIds : LoopIteration(e)
    \/ \E e \in ExecIds : ExecutorDone(e)

\* The event loop runs a task that can take a step.
FairSpecRun == InitRun /\ [][NextRun]_vars /\ WF_vars(TaskStep)

\* C27: the run of a well-formed workflow whose executors return, with no
\* cancel request, eventually ends SUCCESS with each of its nodes executed
\* once, in whatever order the nodes and the edges are declared.
C27_WellFormedRunSucceeds ==
    \A e \in 1..1 :
        (e \in ExecIds) ~>
            /\ e \in ExecIds
            /\ Ended(e)
            /\ Execution(e).status = SUCCESS
            /\ \A n \in DeclaredIds(DefinitionOf(e)) : Calls(e, n) = 1
            /\ Len(history[e].invoked) = Len(DefinitionOf(e).nodes)

\* C27 happens: a workflow whose nodes are declared from the last to the
\* first, with node 3 behind nodes 2 and 1 by edges declared in that order,
\* has ended SUCCESS with four executor calls.
C27_Witness ==
    \E e \in ExecIds :
        /\ Ended(e)
        /\ Execution(e).status = SUCCESS
        /\ DefinitionOf(e).nodes[1].id = 4
        /\ DefinitionOf(e).edges = <<Edge(2, 3), Edge(1, 3)>>
        /\ Len(history[e].invoked) = 4

====
